---------------------------- MODULE Spec2Model ----------------------------
(***************************************************************************)
(* Model of lambda/image-processor/lambda_function.py: the S3-triggered    *)
(* handler that fetches an uploaded image, writes three resized JPEG       *)
(* variants and publishes one SNS notification per record.                 *)
(*                                                                         *)
(* Object keys are sequences of tokens; a token is a piece of text that    *)
(* holds no part of the marker text other than the whole word "processed"  *)
(* or the separator "/", so that substring and prefix tests on the token   *)
(* sequence agree with the tests on the text.                              *)
(*                                                                         *)
(* A PIL image object is [size, mode]; the variable image is the object    *)
(* process_image opened, which Image.thumbnail changes in place.           *)
(***************************************************************************)
EXTENDS Integers, Sequences, FiniteSets, TLC

VARIABLES
    feedback,       \* TRUE when the store written to triggers the handler again
    pending,        \* events waiting for an invocation (sequence of events)
    event,          \* event['Records'] of the running invocation
    pc,             \* position of the running invocation
    i,              \* index of the record the for loop of lambda_handler is at
    image,          \* the image object opened by process_image
    original_size,  \* process_image: original_size
    vi,             \* index into SIZES the for loop of process_image is at
    results,        \* process_image: results
    gets,           \* get_object calls of this invocation (record indices)
    puts,           \* put_object calls of this invocation
    pubs,           \* publish calls of this invocation
    skipped,        \* records the handler skipped
    failure,        \* the kind of the exception raised, "none" without one
    outcome,        \* "running", "ok" (the 200 result) or "raised"
    writes,         \* put_object calls that succeeded, over all invocations
    faults          \* exceptions raised to the runtime's caller, over all invocations

vars == <<feedback, pending, event, pc, i, image, original_size, vi, results,
          gets, puts, pubs, skipped, failure, outcome, writes, faults>>

-----------------------------------------------------------------------------
\* Bounds of the model

MaxRecords == 2

-----------------------------------------------------------------------------
\* Configuration and pure helpers

\* SIZES, in the iteration order of the dict literal
SIZES ==
    << [name |-> "thumbnail", dims |-> <<150, 150>>],
       [name |-> "mobile",    dims |-> <<480, 480>>],
       [name |-> "web",       dims |-> <<1024, 1024>>] >>

SizeNames == { SIZES[n].name : n \in 1..Len(SIZES) }

\* SIZES[v]
TargetDims(v) == SIZES[CHOOSE n \in 1..Len(SIZES) : SIZES[n].name = v].dims

\* the text 'processed/' of the skip test
Marker == <<"processed", "/">>

\* s holds t as a contiguous run (Python: t in s)
Contains(s, t) ==
    \E k \in 0..(Len(s) - Len(t)) : SubSeq(s, k + 1, k + Len(t)) = t

\* s begins with t
HasPrefix(s, t) == Len(s) >= Len(t) /\ SubSeq(s, 1, Len(t)) = t

\* the mutant: only a key that is the marker itself counts as processed
IsProcessedExact(key) == key = Marker

\* lambda_handler: if 'processed/' in key
IsProcessed(key) == Contains(key, Marker)

\* the mutant: the directories of the original key are dropped
ProcessedKeyBasename(size_name, original_key) ==
    <<"processed", "/", size_name, "/", original_key[Len(original_key)]>>

\* process_image: processed_key = f"processed/{size_name}/{original_key}"
ProcessedKey(size_name, original_key) ==
    <<"processed", "/">> \o <<size_name>> \o <<"/">> \o original_key

Abs(n) == IF n < 0 THEN -n ELSE n

Max(a, b) == IF a >= b THEN a ELSE b

CeilDiv(a, b) == IF a % b = 0 THEN a \div b ELSE (a \div b) + 1

\* Image.thumbnail, round_aspect for the width: the one of floor and ceil of
\* y * (w / h) whose ratio to y is nearer w / h (floor on a tie), at least 1.
\* |w/h - n/y| is compared as |w*y - n*h|, the common factor 1/(h*y) dropped.
RoundAspectX(w, h, y) ==
    LET f == (y * w) \div h
        c == CeilDiv(y * w, h)
    IN  Max(IF Abs(w * y - f * h) <= Abs(w * y - c * h) THEN f ELSE c, 1)

\* Image.thumbnail, round_aspect for the height: the key of 0 is 0, else
\* |w/h - x/n| = |w*n - x*h| / (h*n), compared cross-multiplied.
RoundAspectY(w, h, x) ==
    LET f == (x * h) \div w
        c == CeilDiv(x * h, w)
    IN  Max(IF f = 0 \/ Abs(w * f - x * h) * c <= Abs(w * c - x * h) * f
            THEN f ELSE c, 1)

\* the mutant: the width is always derived from the target height
ThumbnailSizeByHeight(size, target) ==
    IF target[1] >= size[1] /\ target[2] >= size[2]
    THEN size
    ELSE <<RoundAspectX(size[1], size[2], target[2]), target[2]>>

\* Image.thumbnail(target, LANCZOS) of Pillow: the size the image has
\* afterwards. An image that fits the box is left alone; otherwise the side
\* that binds takes the box's length and the other is round_aspect of the
\* scaled length. Pillow computes the ratios in floating point; they are
\* exact rationals here. The JPEG draft mode thumbnail may use on the way
\* changes the pixels read, not the final size.
ThumbnailSize(size, target) ==
    LET w == size[1]
        h == size[2]
        x == target[1]
        y == target[2]
    IN  IF x >= w /\ y >= h
        THEN size
        ELSE IF x * h >= y * w
             THEN <<RoundAspectX(w, h, y), y>>
             ELSE <<x, RoundAspectY(w, h, x)>>

\* resize_image: if image.mode in ('RGBA', 'LA', 'P')
FlattenModes == {"RGBA", "LA", "P"}

\* the modes the JPEG encoder of resized_image.save writes
JpegModes == {"RGB", "L"}

\* resize_image(image, target_size): the image returned
ResizeImage(img, target) ==
    [size |-> ThumbnailSize(img.size, target),
     mode |-> IF img.mode \in FlattenModes THEN "RGB" ELSE img.mode]

\* resize_image(image, target_size): the state of the argument afterwards.
\* With a flattened mode thumbnail works on the new background image; with
\* any other mode it works on the argument itself.
ImageAfterResize(img, target) ==
    IF img.mode \in FlattenModes THEN img ELSE ResizeImage(img, target)

\* the mutant: the loop of process_image is left after the first variant
LoopDoneEarly(n) == n > 1

\* process_image: for size_name, dimensions in SIZES.items() is exhausted
LoopDone(n) == n > Len(SIZES)

-----------------------------------------------------------------------------
\* Inputs

Missing == [kind |-> "missing", size |-> <<0, 0>>, mode |-> ""]
Garbage == [kind |-> "garbage", size |-> <<0, 0>>, mode |-> ""]
Img(w, h, m) == [kind |-> "image", size |-> <<w, h>>, mode |-> m]

Keys ==
    { <<"vacation.png">>,
      <<"photos", "/", "a.png">>,
      <<"photos", "/", "un", "processed", "/", "a.png">>,
      <<"processed", "/", "thumbnail", "/", "vacation.png">> }

SmallObjs ==
    { Missing, Garbage,
      Img(2000, 1000, "RGB"), Img(2000, 1000, "RGBA"),
      Img(200, 100, "RGB"), Img(100, 50, "F") }

DimSamples ==
    {1, 2, 3, 7, 75, 100, 149, 150, 151, 200, 479, 480, 481,
     1000, 1023, 1024, 1025, 2000, 2047, 3000}

Modes == {"RGB", "L", "RGBA", "LA", "P", "F"}

GridObjs == { Img(w, h, m) : w \in DimSamples, h \in DimSamples, m \in Modes }

Records(ks, os) == { [key |-> k, obj |-> o] : k \in ks, o \in os }

SeqsUpTo(S, n) == UNION { [1..m -> S] : m \in 0..n }

\* the events an invocation is started with
Events ==
    SeqsUpTo(Records(Keys, SmallObjs), MaxRecords)
    \cup { <<r>> : r \in Records({<<"vacation.png">>}, GridObjs) }

NoImage == [size |-> <<0, 0>>, mode |-> ""]

Idle ==
    /\ event = <<>>
    /\ pc = "idle"
    /\ i = 0
    /\ image = NoImage
    /\ original_size = <<0, 0>>
    /\ vi = 0
    /\ results = <<>>
    /\ gets = <<>>
    /\ puts = <<>>
    /\ pubs = <<>>
    /\ skipped = {}
    /\ failure = "none"
    /\ outcome = "running"
    /\ writes = 0
    /\ faults = 0

Init ==
    /\ feedback = FALSE
    /\ \E e \in Events : pending = <<e>>
    /\ Idle

\* the keys of uploads: the keys that are no derivative's key
SourceKeys == { k \in Keys : ~HasPrefix(k, Marker) }

\* one uploaded object, the store written to triggering the handler again
LoopInit ==
    /\ feedback = TRUE
    /\ \E r \in Records(SourceKeys, SmallObjs) : pending = << <<r>> >>
    /\ Idle

-----------------------------------------------------------------------------
\* lambda_handler

Rec == event[i]

\* the runtime calls lambda_handler(event, context)
Invoke ==
    /\ pc \in {"idle", "done"}
    /\ pending # <<>>
    /\ event' = Head(pending)
    /\ pending' = Tail(pending)
    /\ pc' = "record"
    /\ i' = 1
    /\ image' = NoImage
    /\ original_size' = <<0, 0>>
    /\ vi' = 0
    /\ results' = <<>>
    /\ gets' = <<>>
    /\ puts' = <<>>
    /\ pubs' = <<>>
    /\ skipped' = {}
    /\ failure' = "none"
    /\ outcome' = "running"
    /\ UNCHANGED <<feedback, writes, faults>>

\* if 'processed/' in key: continue
SkipRecord ==
    /\ pc = "record"
    /\ i <= Len(event)
    /\ IsProcessed(Rec.key)
    /\ skipped' = skipped \cup {i}
    /\ i' = i + 1
    /\ UNCHANGED <<feedback, pending, event, pc, image, original_size, vi,
                   results, gets, puts, pubs, failure, outcome, writes, faults>>

\* s3_client.get_object(...) and response['Body'].read() succeed
GetObjectOk ==
    /\ pc = "record"
    /\ i <= Len(event)
    /\ ~IsProcessed(Rec.key)
    /\ Rec.obj.kind # "missing"
    /\ gets' = Append(gets, i)
    /\ pc' = "open"
    /\ UNCHANGED <<feedback, pending, event, i, image, original_size, vi,
                   results, puts, pubs, skipped, failure, outcome, writes, faults>>

\* s3_client.get_object(...) raises: the object is missing or inaccessible
GetObjectFails ==
    /\ pc = "record"
    /\ i <= Len(event)
    /\ ~IsProcessed(Rec.key)
    /\ Rec.obj.kind = "missing"
    /\ gets' = Append(gets, i)
    /\ failure' = "fetch"
    /\ pc' = "except_handler"
    /\ UNCHANGED <<feedback, pending, event, i, image, original_size, vi,
                   results, puts, pubs, skipped, outcome, writes>>
    /\ faults' = faults + 1

\* the for loop over event['Records'] is exhausted: return the 200 result
ReturnOk ==
    /\ pc = "record"
    /\ i > Len(event)
    /\ outcome' = "ok"
    /\ pc' = "done"
    /\ UNCHANGED <<feedback, pending, event, i, image, original_size, vi,
                   results, gets, puts, pubs, skipped, failure, writes, faults>>

\* except Exception as e: logger.error(...); raise e
ExceptHandler ==
    /\ pc = "except_handler"
    /\ outcome' = "raised"
    /\ pc' = "done"
    /\ UNCHANGED <<feedback, pending, event, i, image, original_size, vi,
                   results, gets, puts, pubs, skipped, failure, writes, faults>>

-----------------------------------------------------------------------------
\* process_image

\* results = {}; Image.open succeeds; original_size = image.size
OpenImageOk ==
    /\ pc = "open"
    /\ Rec.obj.kind = "image"
    /\ results' = <<>>
    /\ image' = [size |-> Rec.obj.size, mode |-> Rec.obj.mode]
    /\ original_size' = Rec.obj.size
    /\ vi' = 1
    /\ pc' = "variant"
    /\ UNCHANGED <<feedback, pending, event, i, gets, puts, pubs, skipped,
                   failure, outcome, writes, faults>>

\* Image.open raises: the bytes are no image
OpenImageFails ==
    /\ pc = "open"
    /\ Rec.obj.kind = "garbage"
    /\ results' = <<>>
    /\ failure' = "decode"
    /\ pc' = "except_process"
    /\ UNCHANGED <<feedback, pending, event, i, image, original_size, vi,
                   gets, puts, pubs, skipped, outcome, writes>>
    /\ faults' = faults + 1

size_name == SIZES[vi].name

dimensions == SIZES[vi].dims

resized_image == ResizeImage(image, dimensions)

processed_key == ProcessedKey(size_name, Rec.key)

PutCall(ok) ==
    [rec |-> i, variant |-> size_name, key |-> processed_key,
     size |-> resized_image.size, ok |-> ok]

\* the object written, as the event the destination store sends for it
WrittenEvent ==
    << [key |-> processed_key,
        obj |-> [kind |-> "image", size |-> resized_image.size,
                 mode |-> resized_image.mode]] >>

\* one pass of the loop over SIZES: resize, save, put_object, record
VariantOk ==
    /\ pc = "variant"
    /\ ~LoopDone(vi)
    /\ resized_image.mode \in JpegModes
    /\ image' = ImageAfterResize(image, dimensions)
    /\ puts' = Append(puts, PutCall(TRUE))
    /\ writes' = writes + 1
    /\ pending' = IF feedback THEN Append(pending, WrittenEvent) ELSE pending
    /\ results' = (size_name :> [size |-> resized_image.size,
                                 key |-> processed_key]) @@ results
    /\ vi' = vi + 1
    /\ UNCHANGED <<feedback, event, pc, i, original_size, gets, pubs,
                   skipped, failure, outcome, faults>>

\* resized_image.save(buffer, format='JPEG', ...) raises: the mode of the
\* image has no JPEG encoding
EncodeFails ==
    /\ pc = "variant"
    /\ ~LoopDone(vi)
    /\ resized_image.mode \notin JpegModes
    /\ image' = ImageAfterResize(image, dimensions)
    /\ failure' = "encode"
    /\ pc' = "except_process"
    /\ UNCHANGED <<feedback, pending, event, i, original_size, vi, results,
                   gets, puts, pubs, skipped, outcome, writes>>
    /\ faults' = faults + 1

\* s3_client.put_object(...) raises
PutObjectFails ==
    /\ pc = "variant"
    /\ ~LoopDone(vi)
    /\ resized_image.mode \in JpegModes
    /\ image' = ImageAfterResize(image, dimensions)
    /\ puts' = Append(puts, PutCall(FALSE))
    /\ failure' = "put"
    /\ pc' = "except_process"
    /\ UNCHANGED <<feedback, pending, event, i, original_size, vi, results,
                   gets, pubs, skipped, outcome, writes>>
    /\ faults' = faults + 1

\* return results
ProcessReturn ==
    /\ pc = "variant"
    /\ LoopDone(vi)
    /\ pc' = "notify"
    /\ UNCHANGED <<feedback, pending, event, i, image, original_size, vi,
                   results, gets, puts, pubs, skipped, failure, outcome,
                   writes, faults>>

\* the mutant: the exception is logged and the results so far are returned
ExceptProcessSwallows ==
    /\ pc = "except_process"
    /\ pc' = "notify"
    /\ UNCHANGED <<feedback, pending, event, i, image, original_size, vi,
                   results, gets, puts, pubs, skipped, failure, outcome,
                   writes, faults>>

\* except Exception as e: logger.error(...); raise e
ExceptProcess ==
    /\ pc = "except_process"
    /\ pc' = "except_handler"
    /\ UNCHANGED <<feedback, pending, event, i, image, original_size, vi,
                   results, gets, puts, pubs, skipped, failure, outcome,
                   writes, faults>>

-----------------------------------------------------------------------------
\* send_notification

\* sns_client.publish(...) succeeds; back in lambda_handler, next record
PublishOk ==
    /\ pc = "notify"
    /\ pubs' = Append(pubs, [rec |-> i, ok |-> TRUE])
    /\ pc' = "record"
    /\ i' = i + 1
    /\ UNCHANGED <<feedback, pending, event, image, original_size, vi,
                   results, gets, puts, skipped, failure, outcome, writes, faults>>

\* the mutant: the exception of publish reaches lambda_handler
PublishFailsRaises ==
    /\ pc = "notify"
    /\ pubs' = Append(pubs, [rec |-> i, ok |-> FALSE])
    /\ pc' = "except_handler"
    /\ UNCHANGED <<feedback, pending, event, i, image, original_size, vi,
                   results, gets, puts, skipped, failure, outcome, writes, faults>>

\* sns_client.publish(...) raises: logged, not raised again; next record
PublishFails ==
    /\ pc = "notify"
    /\ pubs' = Append(pubs, [rec |-> i, ok |-> FALSE])
    /\ pc' = "record"
    /\ i' = i + 1
    /\ UNCHANGED <<feedback, pending, event, image, original_size, vi,
                   results, gets, puts, skipped, failure, outcome, writes, faults>>

-----------------------------------------------------------------------------

Next ==
    \/ Invoke
    \/ SkipRecord
    \/ GetObjectOk
    \/ GetObjectFails
    \/ OpenImageOk
    \/ OpenImageFails
    \/ VariantOk
    \/ EncodeFails
    \/ PutObjectFails
    \/ ProcessReturn
    \/ ExceptProcess
    \/ PublishOk
    \/ PublishFails
    \/ ReturnOk
    \/ ExceptHandler

Spec == Init /\ [][Next]_vars

\* every step of a running invocation is taken and every pending event is
\* delivered: the runtime runs the handler to its end
LoopSpec == LoopInit /\ [][Next]_vars /\ WF_vars(Next)

TypeOK ==
    /\ feedback \in BOOLEAN
    /\ pc \in {"idle", "record", "open", "variant", "notify",
               "except_process", "except_handler", "done"}
    /\ outcome \in {"running", "ok", "raised"}
    /\ failure \in {"none", "fetch", "decode", "encode", "put"}
    /\ i \in 0..(Len(event) + 1)
    /\ vi \in 0..(Len(SIZES) + 1)
    /\ skipped \subseteq 1..Len(event)
    /\ writes >= 0
    /\ faults >= 0

-----------------------------------------------------------------------------
\* Properties

\* the put_object calls made for record r and variant v
PutsOf(r, v) == { n \in 1..Len(puts) : puts[n].rec = r /\ puts[n].variant = v }

\* process_image is running for record i or has just returned its results
InProcessImage == pc \in {"variant", "notify"}

\* the dimensions of the source image of record i
SourceSize == event[i].obj.size

\* C1: whenever process_image returns normally, the keys of the result
\* mapping are exactly thumbnail, mobile and web, and exactly one put_object
\* was performed for each of the three for that record.
C1_FullVariantSet ==
    pc = "notify" =>
        /\ DOMAIN results = {"thumbnail", "mobile", "web"}
        /\ \A v \in {"thumbnail", "mobile", "web"} :
               Cardinality(PutsOf(i, v)) = 1
        /\ Cardinality({ n \in 1..Len(puts) : puts[n].rec = i }) = 3

\* process_image has returned for the second record of an event
C1_Witness ==
    /\ pc = "notify"
    /\ i = 2
    /\ Len(puts) = 6

\* C2: for every source image, whatever its mode, and every variant, the
\* dimensions recorded for the variant are the fit of the original source
\* dimensions into the variant's box, whatever was processed before it.
C2_FitOfOriginal ==
    InProcessImage =>
        \A v \in DOMAIN results :
            results[v].size = ThumbnailSize(SourceSize, TargetDims(v))

\* C3: for every variant whose box is at least as large as the source in
\* width and height, the recorded dimensions are the source's dimensions.
C3_NoResizeWhenBoxLarger ==
    InProcessImage =>
        \A v \in DOMAIN results :
            (TargetDims(v)[1] >= SourceSize[1] /\ TargetDims(v)[2] >= SourceSize[2])
                => results[v].size = SourceSize

\* C4: for every source image and every variant, the resulting width is at
\* most the target width, the resulting height at most the target height,
\* and both are at least 1; the same for the size of every put_object call.
C4_WithinBox ==
    /\ \A v \in DOMAIN results :
           /\ 1 <= results[v].size[1] /\ results[v].size[1] <= TargetDims(v)[1]
           /\ 1 <= results[v].size[2] /\ results[v].size[2] <= TargetDims(v)[2]
    /\ \A n \in 1..Len(puts) :
           /\ 1 <= puts[n].size[1]
           /\ puts[n].size[1] <= TargetDims(puts[n].variant)[1]
           /\ 1 <= puts[n].size[2]
           /\ puts[n].size[2] <= TargetDims(puts[n].variant)[2]

\* a very wide source: the height of its thumbnail is raised to 1, and the
\* web variant is shrunk as well
C4_Witness ==
    /\ pc = "notify"
    /\ original_size[2] > 1
    /\ results["thumbnail"].size = <<150, 1>>
    /\ results["web"].size[1] < original_size[1]

\* C5: for every record whose key has processed/ as a prefix, the handler
\* makes no get_object, no put_object and no publish call, wherever the
\* record stands in the event.
C5_DerivativeUntouched ==
    \A r \in 1..Len(event) :
        HasPrefix(event[r].key, Marker) =>
            /\ \A n \in 1..Len(gets) : gets[n] # r
            /\ \A n \in 1..Len(puts) : puts[n].rec # r
            /\ \A n \in 1..Len(pubs) : pubs[n].rec # r

\* an invocation that processed its first record and skipped the second,
\* a derivative
C5_Witness ==
    /\ pc = "done"
    /\ outcome = "ok"
    /\ Len(event) = 2
    /\ HasPrefix(event[2].key, Marker)
    /\ skipped = {2}
    /\ gets = <<1>>
    /\ Len(puts) = 3
    /\ Len(pubs) = 1

\* C6: a failure of publish never changes the outcome: without a fetch,
\* decode, encode or store failure the handler returns the 200 result, every
\* record having been skipped or fetched and notified; a fetch or decode
\* failure always ends the handler by raising.
C6_NotifyBestEffort ==
    /\ (pc = "done" /\ failure = "none") =>
           /\ outcome = "ok"
           /\ \A r \in 1..Len(event) :
                  \/ r \in skipped
                  \/ /\ \E n \in 1..Len(gets) : gets[n] = r
                     /\ \E n \in 1..Len(pubs) : pubs[n].rec = r
    /\ failure \in {"fetch", "decode"} =>
           /\ outcome # "ok"
           /\ pc = "done" => outcome = "raised"

\* the publish for the first record failed, the second record was processed
\* and the handler returned the 200 result
C6_Witness ==
    /\ pc = "done"
    /\ outcome = "ok"
    /\ Len(pubs) = 2
    /\ ~pubs[1].ok
    /\ gets = <<1, 2>>

\* key is processed/ + v + / + k
IsDestinationKey(key, v, k) ==
    /\ Len(key) = Len(k) + 4
    /\ key[1] = "processed"
    /\ key[2] = "/"
    /\ key[3] = v
    /\ key[4] = "/"
    /\ \A n \in 1..Len(k) : key[4 + n] = k[n]

\* C7: for every variant v and original key k, the key passed to put_object
\* and the key recorded in the result mapping are processed/ + v + / + k,
\* with k unchanged.
C7_DestinationKey ==
    /\ \A n \in 1..Len(puts) :
           IsDestinationKey(puts[n].key, puts[n].variant, event[puts[n].rec].key)
    /\ InProcessImage =>
           \A v \in DOMAIN results :
               IsDestinationKey(results[v].key, v, event[i].key)

\* the three variants of a key with a directory have been written
C7_Witness ==
    /\ pc = "notify"
    /\ event[i].key = <<"photos", "/", "a.png">>
    /\ DOMAIN results = SizeNames

\* no event is pending and no invocation is running
Quiescent == pc = "done" /\ pending = <<>>

\* C8: with every written object fed back as a new record, one uploaded
\* source image leads to exactly three variant writes and then to a state
\* with nothing pending (no exception having been raised on the way).
C8_ThreeWritesThenQuiet ==
    (Quiescent /\ faults = 0) => writes = 3

\* the part of C8 that does not depend on the key of the upload: the records
\* fed back are never written again, and the system comes to rest
LoopQuiesces == [](writes <= Len(SIZES)) /\ <>[]Quiescent

\* C9: a record is skipped only when its key begins with processed/.
C9_SkipOnlyDerivatives ==
    \A r \in skipped : HasPrefix(event[r].key, Marker)

C10_Inv ==
    /\ \A m, n \in 1..Len(gets) : m < n => gets[m] < gets[n]
    /\ \A m, n \in 1..Len(puts) : m < n => puts[m].rec <= puts[n].rec
    /\ \A m, n \in 1..Len(pubs) : m < n => pubs[m].rec < pubs[n].rec
    /\ \A n \in 1..Len(gets) : gets[n] <= i
    /\ \A n \in 1..Len(puts) : puts[n].rec <= i
    /\ \A n \in 1..Len(pubs) : pubs[n].rec <= i
    /\ failure # "none" =>
           /\ pc \in {"except_process", "except_handler", "done"}
           /\ pc = "done" => outcome = "raised"
           /\ \A n \in 1..Len(pubs) : pubs[n].rec < i
           /\ \A n \in 1..Len(puts) : puts[n].rec = i => n = Len(puts)
                                                       \/ puts[n].ok

C10_Step ==
    (failure # "none" \/ pc = "done") => UNCHANGED <<i, gets, puts, pubs>>

\* C10: records are handled in event order, each fetched at most once; the
\* first fetch, decode, encode or store failure ends the invocation: after
\* it no notification is published for the record, no further put_object is
\* made, no later record is touched, and the exception is raised again.
C10_AbortOnFirstFailure == []C10_Inv /\ [][C10_Step]_vars

\* the second put_object of the first of two records failed and the handler
\* raised
C10_Witness ==
    /\ pc = "done"
    /\ outcome = "raised"
    /\ failure = "put"
    /\ Len(event) = 2
    /\ i = 1
    /\ Len(puts) = 2
    /\ pubs = <<>>

=============================================================================
